---- MODULE Spec2Model ----
(***************************************************************************)
(* A model of the scene / camera / collision / ray-picking code of         *)
(* src/js/main.js (and of SceneObject.setTransform, which src/main.js      *)
(* shares).                                                                *)
(*                                                                         *)
(* Numbers.  The JavaScript code computes on IEEE doubles (and on float32  *)
(* for the vectors made by vec3.create()).  The model computes on exact    *)
(* rationals and abstracts the rounding of the floats away:                *)
(*   - a length is an integer count of hundredths (Unit = 1.0);            *)
(*   - the camera position is a vector of numerators over one denominator, *)
(*     [n |-> <<x, y, z>>, d |-> D], since the slide response divides;     *)
(*   - an angle is an integer count of micro-radians;                      *)
(*   - Math.sin and Math.cos are tabulated to two decimals (TrigUnit = 1.0)*)
(*     at the yaw values the modelled mouse strokes produce;               *)
(*   - a unit vector made by vec3.normalize is kept as a direction and its *)
(*     squared length, [dir |-> v, len2 |-> v.v], standing for v/sqrt(v.v),*)
(*     so that no square root is ever rounded;                             *)
(*   - the ray parameters of rayIntersectsAABB are IEEE values: a finite   *)
(*     rational, +Infinity, -Infinity or NaN.                              *)
(***************************************************************************)
EXTENDS Integers, Sequences, FiniteSets, TLC

VARIABLES
    scene,                \* var scene: the sequence of SceneObjects
    heap,                 \* the matrices objects and callers hold, by address
    position, yaw, pitch, \* the camera globals
    cameraMatrix,         \* the camera-to-world matrix
    keys,                 \* let keys = {}: the key flags
    lock,                 \* var lock
    pointerLockElement,   \* document.pointerLockElement: "canvas" or "none"
    lockRequest,          \* a requestPointerLock() the host has not answered
    frame,                \* the number of render ticks run so far
    collisionCall,        \* the last call of checkCollisions: inputs and result
    rayCall,              \* the last call of raycast / rayIntersectsAABB
    tick,                 \* what the last handlePlayerInput did
    objectCall            \* the last call of a SceneObject method

vars == <<scene, heap, position, yaw, pitch, cameraMatrix, keys, lock,
          pointerLockElement, lockRequest, frame, collisionCall, rayCall, tick,
          objectCall>>

-----------------------------------------------------------------------------
(* Units and arithmetic helpers *)

Unit == 10 * 10            \* 1.0 as a length
TrigUnit == 10 * 10        \* 1.0 as a value of sin / cos
Half(x) == x \div 2        \* x / 2 on the even lengths the model uses

Abs(x) == IF x < 0 THEN -x ELSE x
MathMin(a, b) == IF a < b THEN a ELSE b
MathMax(a, b) == IF a > b THEN a ELSE b

RECURSIVE GCD(_, _)
GCD(a, b) == IF b = 0 THEN a ELSE GCD(b, a % b)

Gcd3(v) == GCD(GCD(Abs(v[1]), Abs(v[2])), Abs(v[3]))

Zero3 == <<0, 0, 0>>
VAdd(a, b) == <<a[1] + b[1], a[2] + b[2], a[3] + b[3]>>
VSub(a, b) == <<a[1] - b[1], a[2] - b[2], a[3] - b[3]>>
VScale(a, k) == <<a[1] * k, a[2] * k, a[3] * k>>
VDiv(a, k) == <<a[1] \div k, a[2] \div k, a[3] \div k>>
Dot(a, b) == a[1] * b[1] + a[2] * b[2] + a[3] * b[3]

\* The rational vector n/d in lowest terms.
Q(n, d) == LET g == GCD(Gcd3(n), d) IN [n |-> VDiv(n, g), d |-> d \div g]
QInt(v) == [n |-> v, d |-> 1]
LCM(a, b) == (a \div GCD(a, b)) * b
QAdd(p, q) ==
    LET l == LCM(p.d, q.d)
    IN Q(VAdd(VScale(p.n, l \div p.d), VScale(q.n, l \div q.d)), l)
QSub(p, q) == QAdd(p, [n |-> VScale(q.n, -1), d |-> q.d])

-----------------------------------------------------------------------------
(* gl-matrix: mat4 and vec3 *)

\* A mat4 is its 16 entries in column-major order, as in gl-matrix; entry k of
\* the source is entry k + 1 here.  Entries 12..14 (the translation) are
\* lengths; the others are pure numbers.
mat4_create == <<1, 0, 0, 0,  0, 1, 0, 0,  0, 0, 1, 0,  0, 0, 0, 1>>

\* mat4.translate(out, a, v): a * T(v).
mat4_translate(a, v) ==
    [k \in 1..16 |->
        IF k <= 12 THEN a[k]
        ELSE a[k - 12] * v[1] + a[k - 8] * v[2] + a[k - 4] * v[3] + a[k]]

\* mat4.rotateX(out, a, rad): a * Rx(rad), for rad given by s = sin, c = cos.
mat4_rotateX(a, s, c) ==
    [k \in 1..16 |->
        IF k \in 5..8 THEN a[k] * c + a[k + 4] * s
        ELSE IF k \in 9..12 THEN a[k] * c - a[k - 4] * s
        ELSE a[k]]

\* A normalize that divides by the length unguarded: for the zero vector its
\* components are NaN, which the field nan marks.
vec3_normalizeUnguarded(a) ==
    IF Dot(a, a) > 0
    THEN LET g == Gcd3(a) IN [dir |-> VDiv(a, g), len2 |-> Dot(VDiv(a, g), VDiv(a, g))]
    ELSE [dir |-> Zero3, len2 |-> 0, nan |-> TRUE]

\* vec3.normalize(out, a): a / |a|, and the zero vector when |a| = 0.
vec3_normalize(a) ==
    IF Dot(a, a) > 0
    THEN LET g == Gcd3(a) IN [dir |-> VDiv(a, g), len2 |-> Dot(VDiv(a, g), VDiv(a, g))]
    ELSE [dir |-> Zero3, len2 |-> 0]

-----------------------------------------------------------------------------
(* SceneObject *)

Undefined == 0             \* a property the constructor never sets (falsy)
OrElse(x, dflt) == IF x = Undefined THEN dflt ELSE x     \* x || dflt

\* new SceneObject(...): the model matrix lives at address addr of the heap;
\* extents are the extents the subclass built the vertices with.  The
\* constructor sets neither width, height nor depth.
SceneObject(addr, extents) ==
    [modelMatrix |-> addr,
     boundingBox |-> [min |-> Zero3, max |-> Zero3],
     vertices    |-> extents,
     width |-> Undefined, height |-> Undefined, depth |-> Undefined]

Cube(addr, width, height, depth) == SceneObject(addr, <<width, height, depth>>)
Plane(addr, width, height) == SceneObject(addr, <<width, height, 0>>)

\* The box updateBoundingBox derives for an object whose matrix is m.
DerivedBox(object, m) ==
    LET width  == OrElse(object.width, Unit)
        height == OrElse(object.height, Unit)
        depth  == OrElse(object.depth, Unit)
        pos    == <<m[13], m[14], m[15]>>
    IN [min |-> <<pos[1] - Half(width), pos[2] - Half(height), pos[3] - Half(depth)>>,
        max |-> <<pos[1] + Half(width), pos[2] + Half(height), pos[3] + Half(depth)>>]

updateBoundingBox(object, hp) ==
    [object EXCEPT !.boundingBox = DerivedBox(object, hp[object.modelMatrix])]

\* mat4.multiply(out, a, b): a * b.
mat4_multiply(a, b) ==
    [k \in 1..16 |->
        LET r == (k - 1) % 4
            c == (k - 1) \div 4
        IN a[r + 1] * b[4 * c + 1] + a[r + 5] * b[4 * c + 2]
           + a[r + 9] * b[4 * c + 3] + a[r + 13] * b[4 * c + 4]]

\* A setTransform that composes the argument with the previous matrix.
setTransformComposed(object, arg, hp) ==
    [hp EXCEPT ![object.modelMatrix] = mat4_multiply(hp[object.modelMatrix], hp[arg])]

\* setTransform(transformMatrix): mat4.copy(this.modelMatrix, transformMatrix),
\* on the heap; arg is the address of the caller's matrix.
setTransform(object, arg, hp) == [hp EXCEPT ![object.modelMatrix] = hp[arg]]

-----------------------------------------------------------------------------
(* Collision *)

\* getClosestPointOnAABB(point, box), for the point p.n / p.d: the numerators
\* of the closest point over the same denominator p.d.
getClosestPointOnAABB(p, box) ==
    [i \in 1..3 |-> MathMax(box.min[i] * p.d, MathMin(p.n[i], box.max[i] * p.d))]

\* distance <= cameraRadius in place of distance < cameraRadius.
DistanceLessOrEqual(num, d, cameraRadius) ==
    /\ cameraRadius > 0
    /\ num <= cameraRadius * cameraRadius * d * d

\* distance < cameraRadius, for distance = sqrt(num) / d >= 0.
DistanceLess(num, d, cameraRadius) ==
    /\ cameraRadius > 0
    /\ num < cameraRadius * cameraRadius * d * d

\* The loop of checkCollisions from object i on.  The result is what the
\* function returns, with the scene as the calls of updateBoundingBox left it.
RECURSIVE checkCollisionsFrom(_, _, _, _, _)
checkCollisionsFrom(i, playerPosition, sceneObjects, cameraRadius, hp) ==
    IF i > Len(sceneObjects)
    THEN [result |-> [collision |-> FALSE], scene |-> sceneObjects]
    ELSE LET object == updateBoundingBox(sceneObjects[i], hp)
             objs == [sceneObjects EXCEPT ![i] = object]
             closestPoint == getClosestPointOnAABB(playerPosition, object.boundingBox)
             diff == VSub(playerPosition.n, closestPoint)
         IN IF DistanceLess(Dot(diff, diff), playerPosition.d, cameraRadius)
            THEN [result |-> [collision |-> TRUE, normal |-> vec3_normalize(diff)],
                  scene |-> objs]
            ELSE checkCollisionsFrom(i + 1, playerPosition, objs, cameraRadius, hp)

\* A checkCollisions that reports a collision when the loop finds none.
checkCollisionsDefaultHit(playerPosition, sceneObjects, cameraRadius, hp) ==
    LET c == checkCollisionsFrom(1, playerPosition, sceneObjects, cameraRadius, hp)
    IN IF c.result.collision THEN c
       ELSE [result |-> [collision |-> TRUE, normal |-> vec3_normalize(Zero3)],
             scene |-> c.scene]

checkCollisions(playerPosition, sceneObjects, cameraRadius, hp) ==
    checkCollisionsFrom(1, playerPosition, sceneObjects, cameraRadius, hp)

-----------------------------------------------------------------------------
(* IEEE values of the ray arithmetic: a finite rational n/d (d > 0, lowest  *)
(* terms), +Infinity, -Infinity or NaN.                                     *)

Fin(n, d) ==
    LET g == GCD(Abs(n), Abs(d))
        s == IF d < 0 THEN -1 ELSE 1
    IN [k |-> "fin", n |-> (s * n) \div g, d |-> (s * d) \div g]
PInf == [k |-> "pinf", n |-> 0, d |-> 1]
NInf == [k |-> "ninf", n |-> 0, d |-> 1]
NaN  == [k |-> "nan",  n |-> 0, d |-> 1]
EZero == Fin(0, 1)

IsNaN(a) == a.k = "nan"
IsFinite(a) == a.k = "fin"

\* a < b as JavaScript evaluates it: false when either side is NaN.
ELess(a, b) ==
    CASE IsNaN(a) \/ IsNaN(b) -> FALSE
      [] a.k = "ninf" -> b.k # "ninf"
      [] a.k = "pinf" -> FALSE
      [] b.k = "ninf" -> FALSE
      [] b.k = "pinf" -> TRUE
      [] OTHER -> a.n * b.d < b.n * a.d

\* Math.min and Math.max: NaN when an argument is NaN.
EMin(a, b) == IF IsNaN(a) \/ IsNaN(b) THEN NaN ELSE IF ELess(b, a) THEN b ELSE a
EMax(a, b) == IF IsNaN(a) \/ IsNaN(b) THEN NaN ELSE IF ELess(a, b) THEN b ELSE a

ESign(a) == CASE a.k = "pinf" -> 1 [] a.k = "ninf" -> -1
              [] OTHER -> IF a.n > 0 THEN 1 ELSE IF a.n < 0 THEN -1 ELSE 0

EMul(a, b) ==
    CASE IsNaN(a) \/ IsNaN(b) -> NaN
      [] IsFinite(a) /\ IsFinite(b) -> Fin(a.n * b.n, a.d * b.d)
      [] OTHER -> IF ESign(a) * ESign(b) = 0 THEN NaN
                  ELSE IF ESign(a) * ESign(b) > 0 THEN PInf ELSE NInf

EAdd(a, b) ==
    CASE IsNaN(a) \/ IsNaN(b) -> NaN
      [] IsFinite(a) /\ IsFinite(b) ->
            LET l == (a.d * b.d) \div GCD(a.d, b.d)
            IN Fin(a.n * (l \div a.d) + b.n * (l \div b.d), l)
      [] IsFinite(a) -> b
      [] IsFinite(b) -> a
      [] OTHER -> IF a.k = b.k THEN a ELSE NaN

ENeg(a) == CASE a.k = "pinf" -> NInf [] a.k = "ninf" -> PInf
             [] a.k = "nan" -> NaN [] OTHER -> Fin(-a.n, a.d)

\* num / den for finite num and a direction component den; negZero tells
\* whether a zero den is -0.
EDiv(num, den, negZero) ==
    IF den # 0 THEN Fin(num.n, num.d * den)
    ELSE IF num.n = 0 THEN NaN
    ELSE IF (num.n > 0) = negZero THEN NInf ELSE PInf

\* Component i of the rational vector p as an IEEE value.
Coord(p, i) == Fin(p.n[i], p.d)

-----------------------------------------------------------------------------
(* Ray picking *)

Null == <<>>               \* null, as a hit point

\* A ray is [origin |-> a rational vector, direction |-> [v |-> the components
\* (TrigUnit = 1.0), negZero |-> which zero components are -0]].
SlabT(boundary, ray, i) ==
    EDiv(EAdd(Fin(boundary, 1), ENeg(Coord(ray.origin, i))),
         ray.direction.v[i], ray.direction.negZero[i])

RayTMin(ray, box) ==
    LET t1 == SlabT(box.min[1], ray, 1)
        t2 == SlabT(box.max[1], ray, 1)
        t3 == SlabT(box.min[2], ray, 2)
        t4 == SlabT(box.max[2], ray, 2)
        t5 == SlabT(box.min[3], ray, 3)
        t6 == SlabT(box.max[3], ray, 3)
    IN EMax(EMax(EMin(t1, t2), EMin(t3, t4)), EMin(t5, t6))

RayTMax(ray, box) ==
    LET t1 == SlabT(box.min[1], ray, 1)
        t2 == SlabT(box.max[1], ray, 1)
        t3 == SlabT(box.min[2], ray, 2)
        t4 == SlabT(box.max[2], ray, 2)
        t5 == SlabT(box.min[3], ray, 3)
        t6 == SlabT(box.max[3], ray, 3)
    IN EMin(EMin(EMax(t1, t2), EMax(t3, t4)), EMax(t5, t6))

\* vec3.scaleAndAdd(out, a, b, scale): a + b * scale.
RayPoint(ray, t) ==
    [i \in 1..3 |-> EAdd(Coord(ray.origin, i), EMul(Fin(ray.direction.v[i], 1), t))]

\* rayIntersectsAABB without the test for a box behind the ray.
rayIntersectsAABBNoBehind(ray, box) ==
    IF ELess(RayTMax(ray, box), RayTMin(ray, box)) THEN Null
    ELSE RayPoint(ray, RayTMin(ray, box))

rayIntersectsAABB(ray, box) ==
    LET tmin == RayTMin(ray, box)
        tmax == RayTMax(ray, box)
    IN IF ELess(tmax, EZero) THEN Null
       ELSE IF ELess(tmax, tmin) THEN Null
       ELSE RayPoint(ray, tmin)

\* The square of vec3.distance(a, b) for points of IEEE values.
Distance2(a, b) ==
    LET sq(i) == EMul(EAdd(b[i], ENeg(a[i])), EAdd(b[i], ENeg(a[i])))
    IN EAdd(EAdd(sq(1), sq(2)), sq(3))

OriginPoint(ray) == [i \in 1..3 |-> Coord(ray.origin, i)]

\* A raycast loop that keeps the last object hit, whatever its distance.
RECURSIVE raycastFromLastHit(_, _, _, _, _)
raycastFromLastHit(i, ray, sceneObjects, closestObject, closestDistance2) ==
    IF i > Len(sceneObjects) THEN closestObject
    ELSE IF rayIntersectsAABB(ray, sceneObjects[i].boundingBox) # Null
              /\ ELess(Distance2([k \in 1..3 |-> Fin(ray.origin.n[k], ray.origin.d)],
                                 rayIntersectsAABB(ray, sceneObjects[i].boundingBox)), PInf)
         THEN raycastFromLastHit(i + 1, ray, sceneObjects, i, closestDistance2)
         ELSE raycastFromLastHit(i + 1, ray, sceneObjects, closestObject, closestDistance2)

\* The loop of raycast from object i on; closestObject is an index of
\* sceneObjects, 0 for null; closestDistance2 is the square of closestDistance.
RECURSIVE raycastFrom(_, _, _, _, _)
raycastFrom(i, ray, sceneObjects, closestObject, closestDistance2) ==
    IF i > Len(sceneObjects) THEN closestObject
    ELSE LET hit == rayIntersectsAABB(ray, sceneObjects[i].boundingBox)
         IN IF hit # Null /\ ELess(Distance2(OriginPoint(ray), hit), closestDistance2)
            THEN raycastFrom(i + 1, ray, sceneObjects, i,
                             Distance2(OriginPoint(ray), hit))
            ELSE raycastFrom(i + 1, ray, sceneObjects, closestObject, closestDistance2)

raycast(cameraPosition, cameraDirection, sceneObjects) ==
    raycastFrom(1, [origin |-> cameraPosition, direction |-> cameraDirection],
                sceneObjects, 0, PInf)

-----------------------------------------------------------------------------
(* The camera *)

speed == 10                \* const speed = 0.1
cameraRadius == 50         \* const cameraRadius = 0.5
sensitivity == -5000       \* const sensitivity = -0.005, radians per pixel
maxPitch == 1560796        \* Math.PI / 2 - 0.01

\* <<yaw, Math.sin(yaw), Math.cos(yaw)>> to two decimals, for the yaw values
\* (314 q + 129 e) * 0.005, q and e in -1..1, that mouse strokes of 314 and
\* 129 pixels produce; yaw is modelled within this table.
TrigTable ==
    { <<-2215000, -80, -60>>, <<-1570000, -100, 0>>, <<-925000, -80, 60>>,
      <<-645000, -60, 80>>, <<0, 0, 100>>, <<645000, 60, 80>>,
      <<925000, 80, 60>>, <<1570000, 100, 0>>, <<2215000, 80, -60>> }

YawValues == {t[1] : t \in TrigTable}
MathSin(a) == (CHOOSE t \in TrigTable : t[1] = a)[2]
MathCos(a) == (CHOOSE t \in TrigTable : t[1] = a)[3]

\* Math.sqrt on the squares the vectors of the table have.
MathSqrt(x) == CHOOSE r \in 0..(2 * TrigUnit) : r * r <= x /\ x < (r + 1) * (r + 1)

\* A direction: its components and which of its zero components are -0.
calculateForwardVector(y) ==
    LET forward == <<-MathSin(y), 0, -MathCos(y)>>
        length == MathSqrt(Dot(forward, forward))
    IN [v |-> <<(forward[1] * TrigUnit) \div length,
                (forward[2] * TrigUnit) \div length,
                (forward[3] * TrigUnit) \div length>>,
        negZero |-> <<forward[1] = 0, FALSE, forward[3] = 0>>]

calculateRightVector(y) ==
    LET right == <<MathCos(y), 0, -MathSin(y)>>
        length == MathSqrt(Dot(right, right))
    IN [v |-> <<(right[1] * TrigUnit) \div length,
                (right[2] * TrigUnit) \div length,
                (right[3] * TrigUnit) \div length>>,
        negZero |-> <<FALSE, FALSE, right[3] = 0>>]

\* vec3.scaleAndAdd(out, a, b, scale) for a length vector a, a direction b
\* and a length scale: a + b * scale.
vec3_scaleAndAdd(a, b, scale) == VAdd(a, VDiv(VScale(b, scale), TrigUnit))

\* The camera-to-world matrix translation * rotateY(yaw) * rotateX(pitch),
\* kept as the three values it is built from.
CameraTransform(pos, y, p) == [translation |-> pos, rotateY |-> y, rotateX |-> p]

\* updateCamera with the clamp of pitch left out.
updateCameraNoClamp(cam, translation, rotation) ==
    [yaw |-> cam.yaw + rotation[2],
     pitch |-> cam.pitch + rotation[1],
     cameraMatrix |-> [translation |-> cam.position, rotateY |-> cam.yaw + rotation[2],
                       rotateX |-> cam.pitch + rotation[1]],
     position |-> cam.position]

\* updateCamera(translation, rotation) on the camera globals cam.
updateCamera(cam, translation, rotation) ==
    LET yaw1 == cam.yaw + rotation[2]
        pitch1 == MathMax(-maxPitch, MathMin(maxPitch, cam.pitch + rotation[1]))
    IN [yaw |-> yaw1,
        pitch |-> pitch1,
        cameraMatrix |-> CameraTransform(cam.position, yaw1, pitch1),
        position |-> QAdd(cam.position, QInt(translation))]

\* The desired movement of handlePlayerInput for the key flags k.
Movement(k, y) ==
    LET forward == calculateForwardVector(y).v
        right == calculateRightVector(y).v
        m1 == IF k["w"] THEN vec3_scaleAndAdd(Zero3, forward, speed) ELSE Zero3
        m2 == IF k["s"] THEN vec3_scaleAndAdd(m1, forward, -speed) ELSE m1
        m3 == IF k["a"] THEN vec3_scaleAndAdd(m2, right, -speed) ELSE m2
        m4 == IF k["d"] THEN vec3_scaleAndAdd(m3, right, speed) ELSE m3
    IN m4

\* A slide response that adds the normal component instead of removing it.
SlideVectorWrongSign(movement, normal) ==
    IF normal.len2 = 0 THEN QInt(movement)
    ELSE Q(VAdd(VScale(movement, normal.len2),
                VScale(normal.dir, Dot(movement, normal.dir))),
           normal.len2)

\* slideVector = movement - dot(movement, normal) * normal, for the unit (or
\* zero) vector normal = dir / sqrt(len2).
SlideVector(movement, normal) ==
    IF normal.len2 = 0 THEN QInt(movement)
    ELSE Q(VSub(VScale(movement, normal.len2),
                VScale(normal.dir, Dot(movement, normal.dir))),
           normal.len2)

\* The end of handlePlayerInput, from the result of checkCollisions on: the
\* new globals, the scene as checkCollisions left it, and what the call did.
ApplyMovement(cam, movement, checked) ==
    [cam |-> updateCamera(
                [cam EXCEPT !.position =
                    IF checked.result.collision
                    THEN QAdd(cam.position, SlideVector(movement, checked.result.normal))
                    ELSE QAdd(cam.position, QInt(movement))],
                Zero3, <<0, 0>>),
     scene |-> checked.scene,
     did |-> [from |-> cam.position, movement |-> movement, result |-> checked.result]]

\* handlePlayerInput from attemptedPosition = position + movement on.
AttemptMovement(cam, movement, sceneObjects, hp) ==
    ApplyMovement(cam, movement,
                  checkCollisions(QAdd(cam.position, QInt(movement)),
                                  sceneObjects, cameraRadius, hp))

\* handlePlayerInput() on the camera globals cam.
handlePlayerInput(cam, k, sceneObjects, hp) ==
    AttemptMovement(cam, Movement(k, cam.yaw), sceneObjects, hp)

\* lock after the pointerlockchange listener ran.
pointerlockchange(lk, element) == IF element # "canvas" THEN FALSE ELSE lk

-----------------------------------------------------------------------------
(* Bounds and inputs *)

MaxTicks == 2              \* render ticks modelled
MaxDenominator == 5        \* a tick is modelled from a position whose
                           \* denominator is at most this

Keys == {"w", "a", "s", "d"}
NoKeys == [k \in Keys |-> FALSE]
WalkKeys == {"w", "d"}     \* the keys pressed in the scene the module sets up

QuarterStroke == 2 * 157       \* pixels: 314 * 0.005 = 1.57 radians
MouseX == {-QuarterStroke, 0, QuarterStroke}
MouseY == {-400, 0, 400}

-----------------------------------------------------------------------------
(* Scenes *)

\* const modelViewMatrix: the matrix the module itself holds, at address 0.
modelViewMatrix == mat4_translate(mat4_create, <<0, 0, -6 * Unit>>)

\* The heap with the module's matrix at address 0 and mats[a] at address a.
HeapOf(mats) == [a \in 0..Len(mats) |-> IF a = 0 THEN modelViewMatrix ELSE mats[a]]

\* The scene the module sets up: the plane, rotated a quarter turn about x,
\* translated by (0, 0, 10), its box refreshed; the cube is not pushed.
planeMatrix == mat4_translate(mat4_rotateX(mat4_create, 1, 0), <<0, 0, 10 * Unit>>)
SetupHeap == HeapOf(<<planeMatrix>>)
SetupScene == <<updateBoundingBox(Plane(1, 10 * Unit, 10 * Unit), SetupHeap)>>

\* Other scenes: a layout is a sequence of cubes [size |-> the extent the
\* cube is constructed with, at |-> its translation], pushed in this order;
\* the boxes are refreshed, as the module does for its plane, when fresh.
At(t) == mat4_translate(mat4_create, t)
CubesHeap(layout) == HeapOf([a \in 1..Len(layout) |-> At(layout[a].at)])
CubesScene(layout, fresh) ==
    [a \in 1..Len(layout) |->
        LET cube == Cube(a, layout[a].size, layout[a].size, layout[a].size)
        IN IF fresh THEN updateBoundingBox(cube, CubesHeap(layout)) ELSE cube]

UnitCube(t) == [size |-> Unit, at |-> t]

\* Cubes next to the camera's start (0, 0, 6): none, a face ahead, a vertical
\* edge ahead, a horizontal edge ahead and above, two cubes.
MoveLayouts ==
    { <<>>,
      << UnitCube(<<0, 0, 500>>) >>,
      << UnitCube(<<90, 0, 520>>) >>,
      << UnitCube(<<0, 90, 520>>) >>,
      << UnitCube(<<0, 0, 500>>), UnitCube(<<100, 0, 600>>) >> }

-----------------------------------------------------------------------------
(* State *)

Cam == [position |-> position, yaw |-> yaw, pitch |-> pitch,
        cameraMatrix |-> cameraMatrix]

NoTick == [from |-> QInt(<<0, 0, 6 * Unit>>), movement |-> Zero3,
           result |-> [collision |-> FALSE], calls |-> <<>>]

InitCamera ==
    /\ position = QInt(<<0, 0, 6 * Unit>>)
    /\ yaw = 0
    /\ pitch = 0
    \* mat4.invert(cameraMatrix, lookAt([0,0,0], [0,0,-1], [0,1,0])): identity
    /\ cameraMatrix = CameraTransform(QInt(Zero3), 0, 0)
    /\ keys = NoKeys
    /\ lock = FALSE
    /\ pointerLockElement = "none"
    /\ lockRequest = FALSE
    /\ frame = 0
    /\ collisionCall = [made |-> FALSE]
    /\ rayCall = [fn |-> "none"]
    /\ tick = NoTick
    /\ objectCall = [fn |-> "none"]

Init ==
    /\ scene = SetupScene
    /\ heap = SetupHeap
    /\ InitCamera

-----------------------------------------------------------------------------
(* Handlers *)

\* A keydown listener that moves the camera itself instead of setting a flag.
KeyDownMoves(k) ==
    /\ keys' = [keys EXCEPT ![k] = TRUE]
    /\ position' = QAdd(position, QInt(Movement([keys EXCEPT ![k] = TRUE], yaw)))
    /\ UNCHANGED <<scene, heap, yaw, pitch, cameraMatrix, lock,
                   pointerLockElement, lockRequest, frame, collisionCall, rayCall, tick, objectCall>>

KeyDown(k) ==
    /\ keys' = [keys EXCEPT ![k] = TRUE]
    /\ UNCHANGED <<scene, heap, position, yaw, pitch, cameraMatrix, lock,
                   pointerLockElement, lockRequest, frame, collisionCall, rayCall, tick, objectCall>>

KeyUp(k) ==
    /\ keys' = [keys EXCEPT ![k] = FALSE]
    /\ UNCHANGED <<scene, heap, position, yaw, pitch, cameraMatrix, lock,
                   pointerLockElement, lockRequest, frame, collisionCall, rayCall, tick, objectCall>>

\* The mousemove listener, for event.movementX = mx and event.movementY = my.
MouseMove(mx, my) ==
    LET movementX == OrElse(mx, 0)
        movementY == OrElse(my, 0)
        cam == IF lock
               THEN updateCamera(Cam, Zero3, <<movementY * sensitivity, movementX * sensitivity>>)
               ELSE Cam
    IN /\ cam.yaw \in YawValues
       /\ position' = cam.position
       /\ yaw' = cam.yaw
       /\ pitch' = cam.pitch
       /\ cameraMatrix' = cam.cameraMatrix
       /\ UNCHANGED <<scene, heap, keys, lock, pointerLockElement, lockRequest,
                      frame, collisionCall, rayCall, tick, objectCall>>

\* The click listener of the canvas.
Click ==
    /\ lockRequest' = TRUE                    \* canvas.requestPointerLock()
    /\ lock' = TRUE
    /\ rayCall' = [fn |-> "click",
                   hitObject |-> raycast(position, calculateForwardVector(yaw), scene)]
    /\ UNCHANGED <<scene, heap, position, yaw, pitch, cameraMatrix, keys,
                   pointerLockElement, frame, collisionCall, tick, objectCall>>

\* The host grants the pending request and fires pointerlockchange.
LockGranted ==
    /\ lockRequest
    /\ lockRequest' = FALSE
    /\ pointerLockElement' = "canvas"
    /\ lock' = pointerlockchange(lock, "canvas")
    /\ UNCHANGED <<scene, heap, position, yaw, pitch, cameraMatrix, keys,
                   frame, collisionCall, rayCall, tick, objectCall>>

\* The host refuses the pending request (pointerlockerror: no listener).
LockRefused ==
    /\ lockRequest
    /\ lockRequest' = FALSE
    /\ UNCHANGED <<scene, heap, position, yaw, pitch, cameraMatrix, keys, lock,
                   pointerLockElement, frame, collisionCall, rayCall, tick, objectCall>>

\* The user leaves pointer lock; the host fires pointerlockchange.
LockLost ==
    /\ pointerLockElement = "canvas"
    /\ pointerLockElement' = "none"
    /\ lock' = pointerlockchange(lock, "none")
    /\ UNCHANGED <<scene, heap, position, yaw, pitch, cameraMatrix, keys,
                   lockRequest, frame, collisionCall, rayCall, tick, objectCall>>

\* render(): one tick.  Drawing changes none of the modelled state.
\* The globals after a render whose handlePlayerInput and draws are h.
Moved(h) ==
    /\ position' = h.cam.position
    /\ yaw' = h.cam.yaw
    /\ pitch' = h.cam.pitch
    /\ cameraMatrix' = h.cam.cameraMatrix
    /\ scene' = h.scene
    /\ tick' = h.did

\* mat4.invert of the camera transform T(translation) * Ry(rotateY) *
\* Rx(rotateX): the product Rx(rotateX) * Ry(rotateY) * T(translate) of the
\* inverse factors in reverse order.
mat4_invert(m) ==
    [rotateX |-> -m.rotateX,
     rotateY |-> -m.rotateY,
     translate |-> [n |-> VScale(m.translation.n, -1), d |-> m.translation.d]]

\* object.render(matrixLocation, projectionMatrix, viewMatrix): the matrices
\* of the draw call, projection * view * model.
Draw(object, viewMatrix, hp) ==
    [modelMatrix |-> hp[object.modelMatrix], viewMatrix |-> viewMatrix]

\* render() from the return of handlePlayerInput (h) on, drawing with the
\* inverse of the matrix camera: the calls made, in order, and the draws
\* issued to the GL context.
RenderWith(h, camera, hp) ==
    [cam |-> h.cam,
     scene |-> h.scene,
     did |-> [from |-> h.did.from, movement |-> h.did.movement, result |-> h.did.result,
              calls |-> <<"handlePlayerInput", "mat4.invert">>
                          \o [i \in 1..Len(h.scene) |-> "object.render"]
                          \o <<"requestAnimationFrame">>],
     drawn |-> [i \in 1..Len(h.scene) |-> Draw(h.scene[i], mat4_invert(camera), hp)]]

RenderAfter(h, hp) == RenderWith(h, h.cam.cameraMatrix, hp)

\* A render that inverts cameraMatrix before handlePlayerInput has run.
renderStaleView(cam, k, sceneObjects, hp) ==
    RenderWith(handlePlayerInput(cam, k, sceneObjects, hp), cam.cameraMatrix, hp)

\* render(): handlePlayerInput, the view matrix, the draws, the next frame.
render(cam, k, sceneObjects, hp) ==
    RenderAfter(handlePlayerInput(cam, k, sceneObjects, hp), hp)

Tick ==
    /\ frame < MaxTicks
    /\ position.d <= MaxDenominator
    /\ Moved(render(Cam, keys, scene, heap))
    /\ frame' = frame + 1
    /\ UNCHANGED <<heap, keys, lock, pointerLockElement, lockRequest,
                   collisionCall, rayCall, objectCall>>

KeyDownAny == \E k \in Keys : KeyDown(k)
KeyUpAny == \E k \in Keys : KeyUp(k)
KeyDownWalk == \E k \in WalkKeys : KeyDown(k)
KeyUpWalk == \E k \in WalkKeys : KeyUp(k)
MouseMoveAny == \E mx \in MouseX, my \in MouseY : MouseMove(mx, my)

Next ==
    \/ KeyDownWalk
    \/ KeyUpWalk
    \/ MouseMoveAny
    \/ Click
    \/ LockGranted
    \/ LockRefused
    \/ LockLost
    \/ Tick

Spec == Init /\ [][Next]_vars

-----------------------------------------------------------------------------
(* Claims checked under Spec: the module as it sets itself up *)

\* C1: after any sequence of updateCamera calls, from mousemove events and
\* from ticks, pitch lies in [-(PI/2 - 0.01), PI/2 - 0.01].
C1_PitchClamped == -maxPitch <= pitch /\ pitch <= maxPitch

\* C1 witness: a mouse stroke larger than the whole range has been clamped
\* to the limit, and a tick has run since the start.
C1_Witness == Abs(pitch) = maxPitch /\ frame > 0 /\ cameraMatrix.rotateX = pitch

CameraState == <<yaw, pitch, position, cameraMatrix>>

\* C8 as stated: yaw, pitch, position and cameraMatrix change only inside the
\* per-frame tick.
C8_Original == [][CameraState' # CameraState => frame' = frame + 1]_vars

\* C8 amended: outside the tick no handler changes position; the keydown,
\* keyup, click and pointerlockchange handlers change no camera state; the
\* mousemove handler changes yaw, pitch and cameraMatrix at once, and only
\* while lock is set.
C8_Amended ==
    [][frame' = frame =>
          /\ position' = position
          /\ CameraState' # CameraState =>
                /\ lock
                /\ UNCHANGED <<keys, lock, pointerLockElement, lockRequest, rayCall, objectCall>>]_vars

\* C8 witness: before the first tick a mousemove has turned the camera and
\* rebuilt cameraMatrix, with a key flag set and the position still the start.
C8_Witness ==
    /\ frame = 0
    /\ yaw # 0
    /\ cameraMatrix.rotateY = yaw
    /\ keys["w"]
    /\ position = QInt(<<0, 0, 6 * Unit>>)

\* C9 as stated: a mousemove changes yaw or pitch only while the pointer is
\* locked to the canvas.
C9_Original ==
    [][(yaw' # yaw \/ pitch' # pitch) => pointerLockElement = "canvas"]_vars

-----------------------------------------------------------------------------
(* SpecMove: ticks in scenes with cubes next to the camera, the camera       *)
(* looking along any yaw of the table                                        *)

\* The state after a click at the start, the grant of the lock and a
\* mousemove that turned the camera to the yaw y.
InitLooking(y) ==
    /\ position = QInt(<<0, 0, 6 * Unit>>)
    /\ yaw = y
    /\ pitch = 0
    /\ cameraMatrix = CameraTransform(QInt(<<0, 0, 6 * Unit>>), y, 0)
    /\ keys = NoKeys
    /\ lock = TRUE
    /\ pointerLockElement = "canvas"
    /\ lockRequest = FALSE
    /\ frame = 0
    /\ collisionCall = [made |-> FALSE]
    /\ rayCall = [fn |-> "click",
                  hitObject |-> raycast(QInt(<<0, 0, 6 * Unit>>),
                                        calculateForwardVector(0), scene)]
    /\ tick = NoTick
    /\ objectCall = [fn |-> "none"]

InitMove ==
    /\ \/ scene = SetupScene /\ heap = SetupHeap
       \/ \E layout \in MoveLayouts :
             scene = CubesScene(layout, TRUE) /\ heap = CubesHeap(layout)
    /\ \/ InitCamera
       \/ \E y \in YawValues \ {0} : InitLooking(y)

NextMove ==
    \/ KeyDownAny
    \/ KeyUpAny
    \/ Tick

SpecMove == InitMove /\ [][NextMove]_vars

\* C4: in a tick in which checkCollisions reported a collision, the change
\* applied to the camera position has no component along the reported normal;
\* in a tick without a collision the position becomes position + movement.
C4_SlideOrFullMove ==
    frame > 0 =>
        IF tick.result.collision
        THEN Dot(QSub(position, tick.from).n, tick.result.normal.dir) = 0
        ELSE position = QAdd(tick.from, QInt(tick.movement))

\* C4 witness: a tick collided with an edge of a cube (a normal along no
\* axis) and the camera slid by a non-zero vector.
C4_Witness ==
    /\ frame > 0
    /\ tick.result.collision
    /\ tick.result.normal.len2 > 1
    /\ position # tick.from

-----------------------------------------------------------------------------
(* SpecPure: checkCollisions, raycast and rayIntersectsAABB called directly   *)
(* on inputs drawn from small sets: one collision query and one ray query a   *)
(* run, in either order                                                       *)

PureLayouts ==
    { <<>>,
      << [size |-> 2 * Unit, at |-> Zero3] >>,
      << UnitCube(Zero3), UnitCube(<<0, 0, 200>>) >>,
      << UnitCube(<<0, 0, 200>>), UnitCube(Zero3) >>,
      << UnitCube(Zero3), UnitCube(Zero3) >> }

Points ==
    { Zero3, <<0, 0, 60>>, <<0, 0, 180>>, <<0, 0, 300>>, <<80, 0, 90>>, <<0, 500, 0>> }
Radii == { cameraRadius, 5 * cameraRadius }

Origins == { <<0, 0, 1000>>, <<0, 0, 100>>, <<50, 0, 1000>>, Zero3 }
NoNegZero == <<FALSE, FALSE, FALSE>>
Directions ==
    { [v |-> <<0, 0, -100>>, negZero |-> NoNegZero],
      [v |-> <<0, 0, -100>>, negZero |-> <<TRUE, TRUE, FALSE>>],
      [v |-> <<0, 0, 100>>, negZero |-> NoNegZero],
      [v |-> <<-100, 0, 0>>, negZero |-> NoNegZero],
      [v |-> <<6, 0, -100>>, negZero |-> NoNegZero],
      [v |-> Zero3, negZero |-> NoNegZero] }
Boxes ==
    { [min |-> <<-100, -100, -100>>, max |-> <<100, 100, 100>>],
      [min |-> <<-50, -50, 150>>, max |-> <<50, 50, 250>>],
      [min |-> Zero3, max |-> Zero3] }

InitPure ==
    /\ \E layout \in PureLayouts, fresh \in BOOLEAN :
          scene = CubesScene(layout, fresh) /\ heap = CubesHeap(layout)
    /\ InitCamera

CallCheckCollisions(p, r) ==
    LET c == checkCollisions(QInt(p), scene, r, heap)
    IN /\ ~collisionCall.made
       /\ scene' = c.scene
       /\ collisionCall' = [made |-> TRUE, point |-> p, radius |-> r,
                            objects |-> scene, result |-> c.result]
       /\ UNCHANGED <<heap, position, yaw, pitch, cameraMatrix, keys, lock,
                      pointerLockElement, lockRequest, frame, rayCall, tick, objectCall>>

CallRaycast(o, dir) ==
    /\ rayCall.fn = "none"
    /\ rayCall' = [fn |-> "raycast",
                   ray |-> [origin |-> QInt(o), direction |-> dir],
                   objects |-> scene,
                   hitObject |-> raycast(QInt(o), dir, scene)]
    /\ UNCHANGED <<scene, heap, position, yaw, pitch, cameraMatrix, keys, lock,
                   pointerLockElement, lockRequest, frame, collisionCall, tick, objectCall>>

CallRayIntersectsAABB(o, dir, box) ==
    /\ rayCall.fn = "none"
    /\ rayCall' = [fn |-> "rayIntersectsAABB",
                   ray |-> [origin |-> QInt(o), direction |-> dir],
                   box |-> box,
                   hit |-> rayIntersectsAABB([origin |-> QInt(o), direction |-> dir], box)]
    /\ UNCHANGED <<scene, heap, position, yaw, pitch, cameraMatrix, keys, lock,
                   pointerLockElement, lockRequest, frame, collisionCall, tick, objectCall>>

CheckCollisionsAny == \E p \in Points, r \in Radii : CallCheckCollisions(p, r)
RaycastAny == \E o \in Origins, dir \in Directions : CallRaycast(o, dir)
RayIntersectsAABBAny ==
    \E o \in Origins, dir \in Directions, box \in Boxes : CallRayIntersectsAABB(o, dir, box)

NextPure ==
    \/ CheckCollisionsAny
    \/ RaycastAny
    \/ RayIntersectsAABBAny

SpecPure == InitPure /\ [][NextPure]_vars

-----------------------------------------------------------------------------
(* Claims checked under SpecPure *)

\* The per-axis clamp of x into [lo, hi].
Clamp(x, lo, hi) == IF x < lo THEN lo ELSE IF x > hi THEN hi ELSE x

\* The box checkCollisions tests for an object: the one it has just derived
\* from the object's model matrix.
BoxOf(object) == DerivedBox(object, heap[object.modelMatrix])

\* The squared Euclidean distance from the point p to the closest point of box.
ClosestDistance2(p, box) ==
    LET gap(i) == p[i] - Clamp(p[i], box.min[i], box.max[i])
    IN gap(1) * gap(1) + gap(2) * gap(2) + gap(3) * gap(3)

ClosestPoint(p, box) == [i \in 1..3 |-> Clamp(p[i], box.min[i], box.max[i])]

StrictlyInside(p, box) == \A i \in 1..3 : box.min[i] < p[i] /\ p[i] < box.max[i]

Near(p, r, object) == ClosestDistance2(p, BoxOf(object)) < r * r

\* C2: checkCollisions reports a collision exactly when some object's closest
\* AABB point is at distance < radius from the point; it does for a point
\* strictly inside an AABB, and does not when every object is farther than
\* radius.
C2_CollisionIffWithinRadius ==
    collisionCall.made =>
        LET p == collisionCall.point
            r == collisionCall.radius
            objs == collisionCall.objects
        IN /\ collisionCall.result.collision = (\E i \in 1..Len(objs) : Near(p, r, objs[i]))
           /\ (\E i \in 1..Len(objs) : StrictlyInside(p, BoxOf(objs[i])))
                 => collisionCall.result.collision
           /\ (\A i \in 1..Len(objs) : ClosestDistance2(p, BoxOf(objs[i])) > r * r)
                 => ~collisionCall.result.collision

\* C2 witness: a collision was reported for a point strictly inside a box,
\* in a scene of two objects.
C2_Witness ==
    /\ collisionCall.made
    /\ collisionCall.result.collision
    /\ Len(collisionCall.objects) = 2
    /\ \E i \in 1..2 : StrictlyInside(collisionCall.point, BoxOf(collisionCall.objects[i]))

\* The first object in scene order within radius of the point.
FirstNear(p, r, objs) ==
    CHOOSE i \in 1..Len(objs) :
        Near(p, r, objs[i]) /\ \A j \in 1..(i - 1) : ~Near(p, r, objs[j])

\* C3, first part: the normal returned is normalize(point - closestPoint) of
\* the first object in scene order that is within radius.
C3_FirstWins ==
    (collisionCall.made /\ collisionCall.result.collision) =>
        LET p == collisionCall.point
            r == collisionCall.radius
            objs == collisionCall.objects
        IN collisionCall.result.normal =
              vec3_normalize(VSub(p, ClosestPoint(p, BoxOf(objs[FirstNear(p, r, objs)]))))

\* The scene of C3's scenario: one cube built with extents 2 x 2 x 2 at the
\* origin, whose AABB is to be min = (-1, -1, -1), max = (1, 1, 1).
IsCubeOfTwo(objs) ==
    /\ Len(objs) = 1
    /\ objs[1].vertices = <<2 * Unit, 2 * Unit, 2 * Unit>>
    /\ heap[objs[1].modelMatrix] = mat4_create

\* C3 as stated: first qualifying object wins, and for the AABB (-1,-1,-1) ..
\* (1,1,1), the point (0,0,3) and radius 2.5 the result is a collision with
\* normal (0,0,1).
C3_Original ==
    /\ C3_FirstWins
    /\ (/\ collisionCall.made
        /\ IsCubeOfTwo(collisionCall.objects)
        /\ collisionCall.point = <<0, 0, 3 * Unit>>
        /\ collisionCall.radius = 5 * cameraRadius)
          => collisionCall.result =
                [collision |-> TRUE, normal |-> [dir |-> <<0, 0, 1>>, len2 |-> 1]]

\* The hit point of the ray on an object's stored box and its squared
\* distance from the origin.
HitOf(ray, object) == rayIntersectsAABB(ray, object.boundingBox)
HitDistance2(ray, object) == Distance2(OriginPoint(ray), HitOf(ray, object))
IsHitAt(ray, object) == HitOf(ray, object) # Null /\ IsFinite(HitDistance2(ray, object))

\* The identity of the object raycast returned: the address of its matrix.
Identity(objs, index) == IF index = 0 THEN 0 ELSE objs[index].modelMatrix
Reordered(objs, f) == [i \in 1..Len(objs) |-> objs[f[i]]]

\* C5: raycast returns the object whose hit point is nearest to the origin,
\* the earlier in scene order among those at equal distance; when the hit
\* distances are distinct, the object returned is the same for every ordering
\* of the scene.
C5_NearestHit ==
    rayCall.fn = "raycast" =>
        LET ray == rayCall.ray
            objs == rayCall.objects
            r == rayCall.hitObject
            H == {i \in 1..Len(objs) : IsHitAt(ray, objs[i])}
            D(i) == HitDistance2(ray, objs[i])
        IN /\ H = {} => r = 0
           /\ H # {} =>
                /\ r \in H
                /\ \A j \in H : ~ELess(D(j), D(r))
                /\ \A j \in H : j < r => ELess(D(r), D(j))
           /\ (\A i, j \in H : i # j => D(i) # D(j)) =>
                \A f \in Permutations(1..Len(objs)) :
                    Identity(Reordered(objs, f),
                             raycast(ray.origin, ray.direction, Reordered(objs, f)))
                        = Identity(objs, r)

\* C5 witness: two objects are hit at distinct distances and the one returned
\* is the second in scene order.
C5_Witness ==
    /\ rayCall.fn = "raycast"
    /\ Len(rayCall.objects) = 2
    /\ IsHitAt(rayCall.ray, rayCall.objects[1])
    /\ IsHitAt(rayCall.ray, rayCall.objects[2])
    /\ HitDistance2(rayCall.ray, rayCall.objects[1]) # HitDistance2(rayCall.ray, rayCall.objects[2])
    /\ rayCall.hitObject = 2

\* The ray points away from the box: on some axis the origin is beyond the
\* box and the direction does not lead back.
PointsAway(ray, box) ==
    \E i \in 1..3 :
        \/ ray.origin.n[i] > box.max[i] * ray.origin.d /\ ray.direction.v[i] >= 0
        \/ ray.origin.n[i] < box.min[i] * ray.origin.d /\ ray.direction.v[i] <= 0

\* C6: rayIntersectsAABB returns no hit when tmax < 0 or tmin > tmax, and
\* otherwise the point origin + tmin * direction, tmin being the largest
\* per-axis entry distance and tmax the smallest per-axis exit distance; a ray
\* pointing away from every box makes raycast return null; origin (0,0,10),
\* direction (0,0,-1), box (-1,-1,-1)..(1,1,1) give tmin = 9 and (0,0,1).
C6_SlabTest ==
    /\ rayCall.fn = "rayIntersectsAABB" =>
        LET ray == rayCall.ray
            box == rayCall.box
            entry(i) == EMin(SlabT(box.min[i], ray, i), SlabT(box.max[i], ray, i))
            exit(i) == EMax(SlabT(box.min[i], ray, i), SlabT(box.max[i], ray, i))
            tmin == EMax(EMax(entry(1), entry(2)), entry(3))
            tmax == EMin(EMin(exit(1), exit(2)), exit(3))
            example == /\ ray.origin = QInt(<<0, 0, 10 * Unit>>)
                       /\ ray.direction.v = <<0, 0, -TrigUnit>>
                       /\ box = [min |-> <<-Unit, -Unit, -Unit>>, max |-> <<Unit, Unit, Unit>>]
        IN /\ (ELess(tmax, EZero) \/ ELess(tmax, tmin)) => rayCall.hit = Null
           /\ ~(ELess(tmax, EZero) \/ ELess(tmax, tmin)) =>
                 rayCall.hit = [i \in 1..3 |->
                                  EAdd(Coord(ray.origin, i),
                                       EMul(Fin(ray.direction.v[i], 1), tmin))]
           /\ example => /\ tmin = Fin(9, 1)
                         /\ rayCall.hit = <<Fin(0, 1), Fin(0, 1), Fin(Unit, 1)>>
    /\ rayCall.fn = "raycast" =>
        ((\A i \in 1..Len(rayCall.objects) :
                PointsAway(rayCall.ray, rayCall.objects[i].boundingBox))
            => rayCall.hitObject = 0)

\* C6 witness: the ray of the scenario hit the box at (0, 0, 1).
C6_Witness ==
    /\ rayCall.fn = "rayIntersectsAABB"
    /\ rayCall.ray.origin = QInt(<<0, 0, 10 * Unit>>)
    /\ rayCall.ray.direction.v = <<0, 0, -TrigUnit>>
    /\ rayCall.box = [min |-> <<-Unit, -Unit, -Unit>>, max |-> <<Unit, Unit, Unit>>]
    /\ rayCall.hit = <<Fin(0, 1), Fin(0, 1), Fin(Unit, 1)>>

-----------------------------------------------------------------------------
(* The empty scene: queries and ticks with no object *)

InitEmpty ==
    /\ scene = <<>>
    /\ heap = HeapOf(<<>>)
    /\ InitCamera

NextEmpty ==
    \/ CheckCollisionsAny
    \/ RaycastAny
    \/ KeyDownWalk
    \/ KeyUpWalk
    \/ Tick

SpecEmpty == InitEmpty /\ [][NextEmpty]_vars

\* C7: with an empty scene checkCollisions returns {collision: false} for
\* every point and radius, raycast returns null for every origin and
\* direction, and a tick moves the camera by the full movement.
C7_EmptyScene ==
    /\ (collisionCall.made /\ collisionCall.objects = <<>>)
          => collisionCall.result = [collision |-> FALSE]
    /\ (rayCall.fn = "raycast" /\ rayCall.objects = <<>>) => rayCall.hitObject = 0
    /\ (frame > 0 /\ scene = <<>>)
          => /\ tick.result = [collision |-> FALSE]
             /\ position = QAdd(tick.from, QInt(tick.movement))

\* C7 witness: both queries were made on the empty scene and a tick moved
\* the camera.
C7_Witness ==
    /\ scene = <<>>
    /\ collisionCall.made
    /\ collisionCall.objects = <<>>
    /\ rayCall.fn = "raycast"
    /\ rayCall.objects = <<>>
    /\ frame > 0
    /\ tick.movement # Zero3
    /\ position # tick.from

-----------------------------------------------------------------------------
(* One object whose caller sets its transform *)

\* The matrices the caller writes into its own matrix between calls.
CallerMatrices ==
    { mat4_create, modelViewMatrix, At(<<Unit, 0, 0>>), At(<<0, Unit, -2 * Unit>>) }

ObjectsOfOne ==
    { Cube(1, Unit, Unit, Unit), Cube(1, 2 * Unit, 2 * Unit, 2 * Unit),
      Plane(1, 10 * Unit, 10 * Unit) }

InitObject ==
    /\ \E object \in ObjectsOfOne, fresh \in BOOLEAN :
          scene = << IF fresh THEN updateBoundingBox(object, HeapOf(<<mat4_create>>))
                     ELSE object >>
    /\ heap = HeapOf(<<mat4_create>>)
    /\ InitCamera

\* object.setTransform(m), m being the caller's matrix at address 0.
SetTransform ==
    /\ heap' = setTransform(scene[1], 0, heap)
    /\ objectCall' = [fn |-> "setTransform", arg |-> heap[0],
                      replaced |-> heap[scene[1].modelMatrix],
                      box |-> scene[1].boundingBox,
                      prior |-> objectCall.fn]
    /\ UNCHANGED <<scene, position, yaw, pitch, cameraMatrix, keys, lock,
                   pointerLockElement, lockRequest, frame, collisionCall, rayCall, tick>>

\* The caller changes its own matrix.
CallerSets(m) ==
    /\ heap[0] # m
    /\ heap' = [heap EXCEPT ![0] = m]
    /\ UNCHANGED <<scene, position, yaw, pitch, cameraMatrix, keys, lock,
                   pointerLockElement, lockRequest, frame, collisionCall, rayCall, tick,
                   objectCall>>

\* object.updateBoundingBox().
UpdateBoundingBox ==
    /\ scene' = [scene EXCEPT ![1] = updateBoundingBox(scene[1], heap)]
    /\ objectCall' = [fn |-> "updateBoundingBox"]
    /\ UNCHANGED <<heap, position, yaw, pitch, cameraMatrix, keys, lock,
                   pointerLockElement, lockRequest, frame, collisionCall, rayCall, tick>>

CallerSetsAny == \E m \in CallerMatrices : CallerSets(m)

NextObject ==
    \/ SetTransform
    \/ CallerSetsAny
    \/ UpdateBoundingBox

SpecObject == InitObject /\ [][NextObject]_vars

\* C10: after setTransform(m) the object's model matrix equals the value m
\* had at the call, whatever the matrix was before and whatever the caller
\* does to m afterwards, and the object's boundingBox is the one it had
\* before the call.
C10_SetTransformReplaces ==
    objectCall.fn = "setTransform" =>
        /\ heap[scene[1].modelMatrix] = objectCall.arg
        /\ scene[1].boundingBox = objectCall.box

\* C10 witness: a second successive setTransform replaced a matrix that was
\* neither the identity nor the new value, the caller has changed its matrix
\* since, and the boundingBox no longer fits the model matrix.
C10_Witness ==
    /\ objectCall.fn = "setTransform"
    /\ objectCall.prior = "setTransform"
    /\ objectCall.replaced # mat4_create
    /\ objectCall.replaced # objectCall.arg
    /\ objectCall.arg # mat4_create
    /\ heap[0] # objectCall.arg
    /\ scene[1].boundingBox # DerivedBox(scene[1], heap[scene[1].modelMatrix])

\* C11: for a Cube or Plane constructed with extents (width, height, depth),
\* after updateBoundingBox() the box is centred on the translation of the
\* model matrix and spans exactly the extents: min = t - extent / 2,
\* max = t + extent / 2, hence min[i] <= max[i] on every axis.
C11_Original ==
    objectCall.fn = "updateBoundingBox" =>
        LET object == scene[1]
            m == heap[object.modelMatrix]
            t == <<m[13], m[14], m[15]>>
            extents == object.vertices
        IN /\ \A i \in 1..3 :
                /\ object.boundingBox.min[i] = t[i] - Half(extents[i])
                /\ object.boundingBox.max[i] = t[i] + Half(extents[i])
           /\ \A i \in 1..3 : object.boundingBox.min[i] <= object.boundingBox.max[i]

-----------------------------------------------------------------------------
(* Claims about the tick checked under SpecMove *)

\* C12: a tick of handlePlayerInput leaves the y component of the camera
\* position unchanged, for every scene, keys held and yaw, both without a
\* collision and when the slide response is applied.
C12_Original ==
    frame > 0 => position.n[2] * tick.from.d = tick.from.n[2] * position.d

\* The rational point p is at distance >= radius from the box: radius^2 <=
\* the squared distance from p to its per-axis clamp into the box.
AtLeastRadiusFrom(p, box, radius) ==
    LET gap(i) == p.n[i] - Clamp(p.n[i], box.min[i] * p.d, box.max[i] * p.d)
    IN gap(1) * gap(1) + gap(2) * gap(2) + gap(3) * gap(3)
          >= radius * radius * p.d * p.d

ClearOfScene(p) ==
    \A i \in 1..Len(scene) : AtLeastRadiusFrom(p, BoxOf(scene[i]), cameraRadius)

\* C15: if the camera position is at distance >= cameraRadius from every
\* object's AABB before a tick, it is so after the tick, whichever keys are
\* held and however many objects the scene has.
C15_Original ==
    (frame > 0 /\ ClearOfScene(tick.from)) => ClearOfScene(position)

-----------------------------------------------------------------------------
(* Scenes in which the camera starts inside, on or next to a box *)

InsideLayouts ==
    { << UnitCube(<<0, 0, 6 * Unit>>) >>,
      << UnitCube(<<0, 0, 6 * Unit - Half(Unit)>>) >>,
      << UnitCube(<<0, 0, 6 * Unit - Half(Unit) - speed>>) >>,
      << UnitCube(<<Half(Unit) + speed, 0, 6 * Unit>>) >>,
      << UnitCube(<<0, 0, 5 * Unit>>), UnitCube(<<0, 0, 6 * Unit - Half(Unit) - speed>>) >> }

InitInside ==
    /\ \E layout \in InsideLayouts, fresh \in BOOLEAN :
          scene = CubesScene(layout, fresh) /\ heap = CubesHeap(layout)
    /\ \/ InitCamera
       \/ \E y \in YawValues \ {0} : InitLooking(y)

NextInside ==
    \/ KeyDownAny
    \/ KeyUpAny
    \/ Tick

SpecInside == InitInside /\ [][NextInside]_vars

\* The squared distance from the rational point p to the box, times p.d^2.
ScaledDistance2(p, box) ==
    LET gap(i) == p.n[i] - Clamp(p.n[i], box.min[i] * p.d, box.max[i] * p.d)
    IN gap(1) * gap(1) + gap(2) * gap(2) + gap(3) * gap(3)

\* The position handlePlayerInput attempted in the last tick.
AttemptedPosition == QAdd(tick.from, QInt(tick.movement))

Touches(i) == ScaledDistance2(AttemptedPosition, BoxOf(scene[i])) = 0
WithinRadius(i) ==
    ScaledDistance2(AttemptedPosition, BoxOf(scene[i]))
        < cameraRadius * cameraRadius * AttemptedPosition.d * AttemptedPosition.d

-----------------------------------------------------------------------------
(* The render tick, checked under Spec *)

CallsOf(name) == {i \in 1..Len(tick'.calls) : tick'.calls[i] = name}

\* The draws r of a tick use the camera as the tick leaves it.
DrawnAfterUpdate(r) ==
    /\ Len(r.drawn) = Len(scene')
    /\ \A i \in 1..Len(scene') :
          /\ r.drawn[i].modelMatrix = heap'[scene'[i].modelMatrix]
          /\ r.drawn[i].viewMatrix = mat4_invert(CameraTransform(position', yaw', pitch'))

\* C14: each render tick runs the player-input update exactly once and before
\* anything is drawn; every object is drawn with the inverse of the camera
\* transform built from position, yaw and pitch as they stand after that
\* update; and the tick requests exactly one next frame.
C14_TickOrder ==
    [][frame' = frame + 1 =>
         /\ Cardinality(CallsOf("handlePlayerInput")) = 1
         /\ \A i \in CallsOf("handlePlayerInput"), j \in CallsOf("object.render") : i < j
         /\ Cardinality(CallsOf("requestAnimationFrame")) = 1
         /\ Cardinality(CallsOf("object.render")) = Len(scene')
         /\ DrawnAfterUpdate(render(Cam, keys, scene, heap))
         /\ cameraMatrix' = CameraTransform(position', yaw', pitch')]_vars

\* C14 witness: after mouse look, a tick has moved the camera, drawn the one
\* object of the scene and requested the next frame.
C14_Witness ==
    /\ frame > 0
    /\ position # tick.from
    /\ yaw # 0
    /\ pitch # 0
    /\ Len(scene) = 1
    /\ tick.calls = <<"handlePlayerInput", "mat4.invert", "object.render",
                      "requestAnimationFrame">>
    /\ cameraMatrix = CameraTransform(position, yaw, pitch)

-----------------------------------------------------------------------------
(* The boxes checkCollisions leaves behind, checked under SpecPure *)

\* C16: after checkCollisions returns, with or without a reported collision,
\* every object in the scene has a boundingBox equal to the one derived from
\* its current model matrix.
C16_Original ==
    collisionCall.made =>
        \A i \in 1..Len(scene) : scene[i].boundingBox = BoxOf(scene[i])

====
